---- MODULE Spec2Model ----
(***************************************************************************)
(* A model of pytableformat (src/pytableformat/pytableformat.py): the      *)
(* Format mini-language parser, Column and Table.                          *)
(*                                                                         *)
(* Text is a sequence of one-character strings: "ab" is <<"a", "b">>.      *)
(***************************************************************************)
EXTENDS Integers, Sequences, FiniteSets, TLC

(***************************************************************************)
(* Bounds of the model.                                                    *)
(***************************************************************************)
\* longest format specification string given to Format
MaxSpecLen == 4
\* longest text value given to a Column
MaxValLen == 2
\* most values in one Column.format call
MaxRows == 3
\* most rows (values per column) in one Table call
MaxTableRows == 2

(***************************************************************************)
(* Text helpers.                                                           *)
(***************************************************************************)
\* all texts over the characters cs of length at most n
TextsUpTo(cs, n) == UNION {[1..k -> cs] : k \in 0..n}

\* the element of a set of one element.  (A bound variable holds a value: what
\* an operator computes once and uses often is bound as x \in {e}.)
The(S) == CHOOSE x \in S : TRUE

\* the text c * n of Python: the character c, n times
Repeat(c, n) == [i \in 1..n |-> c]

RECURSIVE Concat(_)
\* "".join(ss)
Concat(ss) == IF ss = <<>> THEN <<>> ELSE Head(ss) \o Concat(Tail(ss))

RECURSIVE MaxOf(_)
\* max() of a non-empty sequence of numbers
MaxOf(ns) ==
    IF Len(ns) = 1 THEN ns[1]
    ELSE LET m == MaxOf(Tail(ns)) IN IF ns[1] >= m THEN ns[1] ELSE m

DigitChars == <<"0", "1", "2", "3", "4", "5", "6", "7", "8", "9">>
Digits == {DigitChars[i] : i \in 1..10}
DigitVal(c) == (CHOOSE i \in 1..10 : DigitChars[i] = c) - 1

RECURSIVE StrToNat(_)
\* int(s) of a text of decimal digits
StrToNat(s) ==
    IF s = <<>> THEN 0
    ELSE 10 * StrToNat(SubSeq(s, 1, Len(s) - 1)) + DigitVal(s[Len(s)])

RECURSIVE NatToStr(_)
\* str(n) of a natural number
NatToStr(n) ==
    IF n < 10 THEN <<DigitChars[n + 1]>>
    ELSE NatToStr(n \div 10) \o <<DigitChars[(n % 10) + 1]>>

(***************************************************************************)
(* escape_curly                                                            *)
(***************************************************************************)
RECURSIVE escape_curly(_)
escape_curly(s) ==
    IF s = <<>> THEN <<>>
    ELSE (IF Head(s) = "{" THEN <<"{", "{">>
          ELSE IF Head(s) = "}" THEN <<"}", "}">>
          ELSE <<Head(s)>>) \o escape_curly(Tail(s))

(***************************************************************************)
(* Format: the format specification mini-language.                         *)
(***************************************************************************)
AlignChars == {"<", ">", "=", "^"}
SignChars == {"+", "-", " "}
GroupingChars == {",", "_"}
TypeChars == {"b", "c", "d", "e", "E", "f", "F", "g", "G", "n", "o", "s", "x", "X", "%"}

\* an optional single character of cs at position p of s: "" when absent
OptChar(s, p, cs) == IF p <= Len(s) /\ s[p] \in cs THEN <<s[p]>> ELSE <<>>

RECURSIVE DigitRun(_, _)
\* \d* at position p of s: the longest run of digits
DigitRun(s, p) ==
    IF p <= Len(s) /\ s[p] \in Digits THEN <<s[p]>> \o DigitRun(s, p + 1) ELSE <<>>

\* the groups when none has matched anything, the match ending at 0
NoGroups ==
    [fill |-> <<>>, align |-> <<>>, sign |-> <<>>, z |-> <<>>, alt |-> <<>>,
     zero |-> <<>>, width |-> <<>>, grouping_option |-> <<>>, precision |-> <<>>,
     type |-> <<>>, end |-> 0]

\* the match m, with the group f having matched the text got next
Matched(m, f, got) == [m EXCEPT ![f] = got, !.end = m.end + Len(got)]

\* Format.pattern.match(s): the groups and the end of the match, one group
\* after the other.  Every group after [[fill]align] is optional and greedy
\* and none can fail, so the match is the leftmost-greedy one; fill is tried
\* before align alone.  "." and precision match together or not at all.
\* (No text of the model holds a line break, the one character "." does not
\* match.)
FormatMatch(s) ==
    LET g1 == {IF Len(s) >= 2 /\ s[2] \in AlignChars
                  THEN [NoGroups EXCEPT !.fill = <<s[1]>>, !.align = <<s[2]>>, !.end = 2]
               ELSE IF Len(s) >= 1 /\ s[1] \in AlignChars
                  THEN [NoGroups EXCEPT !.align = <<s[1]>>, !.end = 1]
               ELSE NoGroups}
        g2 == {Matched(m, "sign", OptChar(s, m.end + 1, SignChars)) : m \in g1}
        g3 == {Matched(m, "z", OptChar(s, m.end + 1, {"z"})) : m \in g2}
        g4 == {Matched(m, "alt", OptChar(s, m.end + 1, {"#"})) : m \in g3}
        g5 == {Matched(m, "zero", OptChar(s, m.end + 1, {"0"})) : m \in g4}
        g6 == {Matched(m, "width", DigitRun(s, m.end + 1)) : m \in g5}
        g7 == {Matched(m, "grouping_option", OptChar(s, m.end + 1, GroupingChars)) : m \in g6}
        g8 == {IF OptChar(s, m.end + 1, {"."}) # <<>> /\ DigitRun(s, m.end + 2) # <<>>
                  THEN Matched([m EXCEPT !.end = m.end + 1], "precision",
                               DigitRun(s, m.end + 2))
               ELSE m : m \in g7}
        g9 == {Matched(m, "type", OptChar(s, m.end + 1, TypeChars)) : m \in g8}
    IN  The(g9)

\* the fields of a Format
FormatFields ==
    {"fill", "align", "sign", "z", "alt", "zero", "width", "grouping_option",
     "precision", "type"}

\* what Format(s) leaves when it raises ValueError
Invalid == [invalid |-> TRUE]

\* Format.__init__
FormatNew(s) ==
    LET m == FormatMatch(s)
    IN  IF m.end # Len(s) THEN Invalid
        ELSE [f \in FormatFields |-> m[f]]

\* Format.__str__ as it would be without the "." before the precision
FormatStrNoDot(f) ==
    <<"{", ":">> \o f.fill \o f.align \o f.sign \o f.z \o f.alt \o f.zero \o f.width
    \o f.grouping_option \o f.precision \o f.type \o <<"}">>

\* Format.__str__
FormatStr(f) ==
    LET precision == IF f.precision = <<>> THEN <<>> ELSE <<".">> \o f.precision
    IN  <<"{", ":">> \o f.fill \o f.align \o f.sign \o f.z \o f.alt \o f.zero \o f.width
        \o f.grouping_option \o precision \o f.type \o <<"}">>

\* the text str(f) places between "{:" and "}"
SpecOf(text) == SubSeq(text, 3, Len(text) - 1)

(***************************************************************************)
(* The host's formatting primitive: str.format and format(value, spec),    *)
(* for text values.  A result is [ok |-> TRUE, text |-> t], or Raised when *)
(* the host raises.                                                        *)
(***************************************************************************)
Raised == [ok |-> FALSE, text |-> <<>>]
Returned(t) == [ok |-> TRUE, text |-> t]

\* How the host reads a specification for a text value.  Its grammar is the
\* mini-language's (the one Format.pattern follows); text takes no sign, "z",
\* "#", grouping or "=" alignment and no type but "s".  The fill character is
\* "0" under the zero flag and a space otherwise, the alignment "<".
HostSpec(spec) ==
    The({[bad |-> \/ m.end # Len(spec)
                  \/ m.sign # <<>> \/ m.z # <<>> \/ m.alt # <<>>
                  \/ m.grouping_option # <<>>
                  \/ m.align = <<"=">>
                  \/ m.type \notin {<<>>, <<"s">>},
          fill |-> IF m.fill # <<>> THEN m.fill[1] ELSE IF m.zero # <<>> THEN "0" ELSE " ",
          align |-> IF m.align # <<>> THEN m.align[1] ELSE "<",
          cuts |-> m.precision # <<>>,
          precision |-> StrToNat(m.precision),
          width |-> StrToNat(m.width)] : m \in {FormatMatch(spec)}})

\* format(v, spec) for a text v, spec as HostSpec read it: precision cuts the
\* text, width pads it with the fill character as the alignment says
HostRender(h, v) ==
    LET cut == IF h.cuts /\ h.precision < Len(v) THEN SubSeq(v, 1, h.precision) ELSE v
        pad == IF h.width > Len(cut) THEN h.width - Len(cut) ELSE 0
        left == IF h.align = ">" THEN pad ELSE IF h.align = "^" THEN pad \div 2 ELSE 0
    IN  IF h.bad THEN Raised
        ELSE Returned(Repeat(h.fill, left) \o cut \o Repeat(h.fill, pad - left))

\* the position of the first "}" of t at or after p, 0 when there is none
RECURSIVE ClosingBrace(_, _)
ClosingBrace(t, p) ==
    IF p > Len(t) THEN 0 ELSE IF t[p] = "}" THEN p ELSE ClosingBrace(t, p + 1)

BadTemplate == [ok |-> FALSE, fields |-> 0, before |-> <<>>, spec |-> HostSpec(<<>>),
                after |-> <<>>]
NoTemplate == [ok |-> TRUE, fields |-> 0, before |-> <<>>, spec |-> HostSpec(<<>>),
               after |-> <<>>]

\* the template that is the literal character c and then the template rest
LiteralThen(c, rest) ==
    IF ~rest.ok THEN BadTemplate
    ELSE IF rest.fields = 0 THEN [rest EXCEPT !.after = <<c>> \o @]
    ELSE [rest EXCEPT !.before = <<c>> \o @]

\* the template that is the replacement field {field} and then the template
\* rest: bad for a named field or a second field (there is one argument)
FieldThen(field, rest) ==
    IF ~rest.ok \/ rest.fields > 0 \/ (field # <<>> /\ field[1] # ":") THEN BadTemplate
    ELSE [ok |-> TRUE, fields |-> 1, before |-> <<>>,
          spec |-> HostSpec(IF field = <<>> THEN <<>> ELSE Tail(field)),
          after |-> rest.after]

\* How str.format reads the template t from position p: "{{" and "}}" are
\* literal braces, "{}" and "{:spec}" are the replacement field.  The
\* literal text before and after the field, and the field's specification;
\* not ok for a lone brace.
RECURSIVE ScanTemplate(_, _)
ScanTemplate(t, p) ==
    IF p > Len(t) THEN NoTemplate
    ELSE IF t[p] \in {"{", "}"} /\ (p < Len(t) /\ t[p + 1] = t[p])
        THEN The({LiteralThen(t[p], rest) : rest \in {ScanTemplate(t, p + 2)}})
    ELSE IF t[p] \notin {"{", "}"}
        THEN The({LiteralThen(t[p], rest) : rest \in {ScanTemplate(t, p + 1)}})
    ELSE IF t[p] = "}" \/ ClosingBrace(t, p + 1) = 0 THEN BadTemplate
    ELSE The(UNION {{FieldThen(SubSeq(t, p + 1, q - 1), rest) :
                        rest \in {ScanTemplate(t, q + 1)}} :
                    q \in {ClosingBrace(t, p + 1)}})

\* str.format on a template as ScanTemplate read it, for the argument v
FormatParts(parts, v) ==
    IF ~parts.ok THEN Raised
    ELSE IF parts.fields = 0 THEN Returned(parts.after)
    ELSE The({IF ~r.ok THEN Raised ELSE Returned(parts.before \o r.text \o parts.after) :
              r \in {HostRender(parts.spec, v)}})

\* t.format(v)
StrFormat(t, v) == The({FormatParts(parts, v) : parts \in {ScanTemplate(t, 1)}})

\* [t.format(v) for v in vals]
StrFormatEach(t, vals) ==
    The({[i \in 1..Len(vals) |-> FormatParts(parts, vals[i])] :
         parts \in {ScanTemplate(t, 1)}})

\* Format.format
FormatFormat(f, v) == StrFormat(FormatStr(f), v)

(***************************************************************************)
(* HRule                                                                   *)
(***************************************************************************)
NONE == 0
HEADER == 1
FRAME == 2
FRAME_HEADER == 3
ALL == 4
HRule == {NONE, HEADER, FRAME, FRAME_HEADER, ALL}

(***************************************************************************)
(* Column                                                                  *)
(***************************************************************************)
RECURSIVE SpaceRun(_, _)
\* \s* at position p of s (the space is the only white space of the model)
SpaceRun(s, p) ==
    IF p <= Len(s) /\ s[p] = " " THEN <<" ">> \o SpaceRun(s, p + 1) ELSE <<>>

\* \s*\S? matches all of s after position q: spaces, then at most one character
ColumnTailOk(s, q) ==
    LET rp == SpaceRun(s, q + 1) IN q + Len(rp) + 1 >= Len(s)

\* Column.pattern.fullmatch(s) with a left border of lb characters (0 or 1):
\* the padding is the whole run of spaces before "{"; ":(.*)" is tried first
\* and takes the most it can, so the closing brace is the last one the rest
\* of the pattern can follow
ColumnMatchWith(s, lb) ==
    LET lp == SpaceRun(s, 1 + lb)
        p2 == 1 + lb + Len(lp)
        open == p2 <= Len(s) /\ s[p2] = "{"
        closers == {q \in (p2 + 2)..Len(s) : s[q] = "}" /\ ColumnTailOk(s, q)}
        hasSpec == open /\ p2 < Len(s) /\ s[p2 + 1] = ":" /\ closers # {}
        noSpec == open /\ p2 < Len(s) /\ s[p2 + 1] = "}" /\ ColumnTailOk(s, p2 + 1)
        q == IF hasSpec THEN CHOOSE c \in closers : \A d \in closers : d <= c ELSE p2 + 1
        rp == SpaceRun(s, q + 1)
    IN  [matched |-> hasSpec \/ noSpec,
         left_border |-> SubSeq(s, 1, lb),
         left_padding |-> lp,
         content_format |-> IF hasSpec THEN SubSeq(s, p2 + 2, q - 1) ELSE <<>>,
         right_padding |-> rp,
         right_border |-> SubSeq(s, q + Len(rp) + 1, Len(s))]

\* Column.pattern.fullmatch(s): \S? takes a border character when it can
ColumnMatch(s) ==
    IF Len(s) >= 1 /\ s[1] # " " /\ ColumnMatchWith(s, 1).matched
    THEN ColumnMatchWith(s, 1)
    ELSE ColumnMatchWith(s, 0)

\* Column.__init__ as it would be without precision being set to width
ColumnNewKeepPrecision(format, hrule, hrule_format) ==
    The({[left_border |-> groups.left_border,
          left_padding |-> groups.left_padding,
          content_format |-> FormatNew(groups.content_format),
          width |-> FormatNew(groups.content_format).width,
          right_padding |-> groups.right_padding,
          right_border |-> groups.right_border,
          hrule |-> hrule,
          hrule_left_char |-> hrule_format[1],
          hrule_char |-> hrule_format[2],
          hrule_right_char |-> hrule_format[3]] : groups \in {ColumnMatch(format)}})

\* Column.__init__, for a format the patterns accept
ColumnNew(format, hrule, hrule_format) ==
    LET groups == ColumnMatch(format)
        cf == FormatNew(groups.content_format)
    IN  [left_border |-> groups.left_border,
         left_padding |-> groups.left_padding,
         content_format |-> [cf EXCEPT !.precision = cf.width],
         width |-> cf.width,
         right_padding |-> groups.right_padding,
         right_border |-> groups.right_border,
         hrule |-> hrule,
         hrule_left_char |-> hrule_format[1],
         hrule_char |-> hrule_format[2],
         hrule_right_char |-> hrule_format[3]]

\* whether Column(format) returns rather than raising ValueError
ColumnAccepts(format) ==
    /\ ColumnMatch(format).matched
    /\ FormatNew(ColumnMatch(format).content_format) # Invalid

\* Column.__str__
ColumnStr(col) ==
    escape_curly(col.left_border) \o col.left_padding \o FormatStr(col.content_format)
    \o col.right_padding \o escape_curly(col.right_border)

\* Column.total_width, -1 when the host raises
total_width(col) ==
    The({IF r.ok THEN Len(col.left_padding) + Len(r.text) + Len(col.right_padding) ELSE -1 :
         r \in {FormatFormat(col.content_format, <<>>)}})

\* list.insert(i, x): before index i (from 0), at the end when i is past it
ListInsert(list, i, x) ==
    IF i >= Len(list) THEN Append(list, x)
    ELSE SubSeq(list, 1, i) \o <<x>> \o SubSeq(list, i + 1, Len(list))

\* Column.format, the width: the explicit width, or else the longest of the
\* texts content_format, as it is now, gave for the values
MeasuredWidth(col, rendered) ==
    IF col.width # <<>> THEN col.width
    ELSE NatToStr(MaxOf([i \in 1..Len(rendered) |-> Len(rendered[i].text)]))

\* Column.format, the hrule line; Raised when total_width raises
HRuleLine(col) ==
    The({IF tw < 0 THEN Raised
         ELSE Returned(
                 Repeat(col.hrule_left_char, IF col.left_border # <<>> THEN 1 ELSE 0)
                 \o Repeat(col.hrule_char, tw)
                 \o Repeat(col.hrule_right_char, IF col.right_border # <<>> THEN 1 ELSE 0)) :
         tw \in {total_width(col)}})

RECURSIVE RowLoopBetween(_, _, _)
\* the loop as it would be with the hrule only between the lines under ALL
RowLoopBetween(lines, hrule, policy) ==
    IF lines = <<>> THEN <<>>
    ELSE <<Head(lines)>> \o (IF policy = ALL /\ Len(lines) > 1 THEN <<hrule>> ELSE <<>>)
         \o RowLoopBetween(Tail(lines), hrule, policy)

RECURSIVE RowLoop(_, _, _)
\* Column.format, the loop: each line, followed by the hrule under ALL
RowLoop(lines, hrule, policy) ==
    IF lines = <<>> THEN <<>>
    ELSE <<Head(lines)>> \o (IF policy = ALL THEN <<hrule>> ELSE <<>>)
         \o RowLoop(Tail(lines), hrule, policy)

\* the output as it would be with the closing hrule under every policy from
\* FRAME on, as the opening one is
ColumnOutputClosingAll(lines, hrule, policy) ==
    The({IF policy >= FRAME THEN Append(headed, hrule) ELSE headed :
         headed \in {IF policy = HEADER
                        THEN ListInsert(RowLoop(lines, hrule, policy), 1, hrule)
                     ELSE IF policy = FRAME_HEADER /\ Len(lines) > 1
                        THEN ListInsert(<<hrule>> \o RowLoop(lines, hrule, policy), 2, hrule)
                     ELSE IF policy >= FRAME THEN <<hrule>> \o RowLoop(lines, hrule, policy)
                     ELSE RowLoop(lines, hrule, policy)}})

\* the output as it would be with the header hrule of FRAME_HEADER put where
\* HEADER puts it, at index 1
ColumnOutputHeaderAtOne(lines, hrule, policy) ==
    The({IF policy = FRAME \/ policy = FRAME_HEADER THEN Append(headed, hrule) ELSE headed :
         headed \in {IF policy = HEADER
                        THEN ListInsert(RowLoop(lines, hrule, policy), 1, hrule)
                     ELSE IF policy = FRAME_HEADER /\ Len(lines) > 1
                        THEN ListInsert(<<hrule>> \o RowLoop(lines, hrule, policy), 1, hrule)
                     ELSE IF policy >= FRAME THEN <<hrule>> \o RowLoop(lines, hrule, policy)
                     ELSE RowLoop(lines, hrule, policy)}})

\* Column.format, the output: the lines the values gave and the hrule line,
\* placed by the policy
ColumnOutput(lines, hrule, policy) ==
    The({IF policy = FRAME \/ policy = FRAME_HEADER THEN Append(headed, hrule) ELSE headed :
         headed \in {IF policy = HEADER
                        THEN ListInsert(RowLoop(lines, hrule, policy), 1, hrule)
                     ELSE IF policy = FRAME_HEADER /\ Len(lines) > 1
                        THEN ListInsert(<<hrule>> \o RowLoop(lines, hrule, policy), 2, hrule)
                     ELSE IF policy >= FRAME THEN <<hrule>> \o RowLoop(lines, hrule, policy)
                     ELSE RowLoop(lines, hrule, policy)}})

\* Column.format once the width is set in col1: the lines of the values and
\* the hrule line, as the policy places them
ColumnEmit(col1, vals) ==
    The({IF ~hrule.ok \/ \E i \in 1..Len(vals) : ~lines[i].ok
            THEN [ok |-> FALSE, column |-> col1, output |-> <<>>]
         ELSE [ok |-> TRUE, column |-> col1,
               output |-> ColumnOutput([i \in 1..Len(vals) |-> lines[i].text],
                                       hrule.text, col1.hrule)] :
         lines \in {StrFormatEach(ColumnStr(col1), vals)},
         hrule \in {HRuleLine(col1)}})

\* Column.format(vals): [ok, column, output], the column as the call leaves
\* it and the lines it returns; ok is FALSE when it raises (max() of no
\* values, or the host refusing the specification).  The values are
\* measured only when the column has no explicit width.
ColumnFormat(col, vals) ==
    The({IF col.width = <<>> /\ (vals = <<>> \/ \E i \in 1..Len(vals) : ~rendered[i].ok)
            THEN [ok |-> FALSE, column |-> col, output |-> <<>>]
         ELSE The({ColumnEmit(col1, vals) :
                   col1 \in {[col EXCEPT !.content_format.width =
                                             MeasuredWidth(col, rendered)]}}) :
         rendered \in {IF col.width = <<>>
                       THEN StrFormatEach(FormatStr(col.content_format), vals)
                       ELSE <<>>}})

(***************************************************************************)
(* Table                                                                   *)
(***************************************************************************)
Min(a, b) == IF a <= b THEN a ELSE b

RECURSIVE MinLen(_)
\* the length of the shortest of a non-empty sequence of sequences
MinLen(ss) == IF Len(ss) = 1 THEN Len(ss[1]) ELSE Min(Len(ss[1]), MinLen(Tail(ss)))

\* zip(*rows) as it would be were the rows taken for the columns
ZipUntransposed(rows) == rows

\* zip(*rows): one sequence per position, as far as the shortest row goes
Zip(rows) ==
    IF rows = <<>> THEN <<>>
    ELSE [c \in 1..MinLen(rows) |-> [r \in 1..Len(rows) |-> rows[r][c]]]

RECURSIVE JoinLines(_)
\* "\n".join(lines)
JoinLines(lines) ==
    IF lines = <<>> THEN <<>>
    ELSE IF Len(lines) = 1 THEN lines[1]
    ELSE lines[1] \o <<"\n">> \o JoinLines(Tail(lines))

\* Table.__init__, for formats the patterns accept and matching headers
TableNew(column_formats, headers, hrule, hrule_format) ==
    [headers |-> headers,
     columns |-> [i \in 1..Len(column_formats) |->
                     ColumnNew(column_formats[i], hrule, hrule_format)]]

\* whether Table(column_formats, headers) returns rather than raising
TableAccepts(column_formats, headers) ==
    /\ headers = <<>> \/ Len(column_formats) = Len(headers)
    /\ \A i \in 1..Len(column_formats) : ColumnAccepts(column_formats[i])

\* Table.format, the columns' values, each header before its column's
TableHeaded(t, columns) ==
    IF t.headers # <<>>
    THEN [i \in 1..Min(Len(t.headers), Len(columns)) |-> <<t.headers[i]>> \o columns[i]]
    ELSE columns

\* Table.format, the zip of what the columns returned, formatted[i] being
\* what column i made (the columns are formatted in order, as far as the
\* first that raises): the strict zip raises when the line counts differ
TableZip(t, formatted) ==
    LET n == Len(formatted)
        failed == {i \in 1..n : ~formatted[i].ok}
        reached == IF failed = {} THEN n ELSE CHOOSE i \in failed : \A j \in failed : i <= j
        after == [t EXCEPT !.columns = [i \in 1..Len(t.columns) |->
                                           IF i <= reached THEN formatted[i].column
                                           ELSE t.columns[i]]]
        ragged == \E i, j \in 1..n : Len(formatted[i].output) # Len(formatted[j].output)
        count == IF n = 0 THEN 0 ELSE Len(formatted[1].output)
    IN  IF failed # {} \/ ragged THEN [ok |-> FALSE, table |-> after, text |-> <<>>]
        ELSE [ok |-> TRUE, table |-> after,
              text |-> JoinLines([r \in 1..count |->
                                     Concat([i \in 1..n |-> formatted[i].output[r]])])]

\* Table.format(columns): [ok, table, text]
TableFormat(t, columns) ==
    The({TableZip(t, formatted) :
         formatted \in {[i \in 1..Min(Len(t.columns), Len(headed)) |->
                            ColumnFormat(t.columns[i], headed[i])] :
                        headed \in {TableHeaded(t, columns)}}})

\* Table.format_rows(rows)
TableFormatRows(t, rows) == TableFormat(t, Zip(rows))

(***************************************************************************)
(* State.                                                                  *)
(***************************************************************************)
VARIABLES
    spec_in,    \* the text given to Format(...)
    format_pc,  \* how far the Format has come: new, parsed, rejected, written, reparsed
    fmt,        \* the Format made of spec_in
    fmt_text,   \* str(fmt)
    fmt_again,  \* the Format made of the specification in fmt_text
    column,     \* a Column
    call,       \* the Column.format call whose result the caller holds
    table,      \* a Table
    tcall       \* the Table call whose result the caller holds

vars == <<spec_in, format_pc, fmt, fmt_text, fmt_again, column, call, table, tcall>>
format_vars == <<spec_in, format_pc, fmt, fmt_text, fmt_again>>
column_vars == <<column, call>>
table_vars == <<table, tcall>>

None == [none |-> TRUE]

NoCall == [made |-> FALSE, returned |-> FALSE, values |-> <<>>, output |-> <<>>,
           before |-> None]
NoTableCall == [made |-> FALSE, op |-> "none", returned |-> FALSE, arg |-> <<>>,
                text |-> <<>>, before |-> None]

FormatIdle ==
    /\ spec_in = <<>> /\ format_pc = "idle"
    /\ fmt = None /\ fmt_text = <<>> /\ fmt_again = None
ColumnIdle == column = None /\ call = NoCall
TableIdle == table = None /\ tcall = NoTableCall

(***************************************************************************)
(* Format: parse a specification, write it back, parse what was written.   *)
(***************************************************************************)
SpecChars == {"x", "<", "+", "z", "#", "0", "5", ",", ".", "s"}
SpecStrings == TextsUpTo(SpecChars, MaxSpecLen)

\* f = Format(spec_in)
NewFormat ==
    /\ format_pc = "new"
    /\ fmt' = FormatNew(spec_in)
    /\ format_pc' = IF FormatNew(spec_in) = Invalid THEN "rejected" ELSE "parsed"
    /\ UNCHANGED <<spec_in, fmt_text, fmt_again, column_vars, table_vars>>

\* text = str(f)
StrOfFormat ==
    /\ format_pc = "parsed"
    /\ fmt_text' = FormatStr(fmt)
    /\ format_pc' = "written"
    /\ UNCHANGED <<spec_in, fmt, fmt_again, column_vars, table_vars>>

\* Format(text[2:-1])
NewFormatAgain ==
    /\ format_pc = "written"
    /\ fmt_again' = FormatNew(SpecOf(fmt_text))
    /\ format_pc' = "reparsed"
    /\ UNCHANGED <<spec_in, fmt, fmt_text, column_vars, table_vars>>

InitFormat ==
    /\ spec_in \in SpecStrings
    /\ format_pc = "new"
    /\ fmt = None /\ fmt_text = <<>> /\ fmt_again = None
    /\ ColumnIdle /\ TableIdle

NextFormat == NewFormat \/ StrOfFormat \/ NewFormatAgain

SpecFormat == InitFormat /\ [][NextFormat]_vars

(***************************************************************************)
(* Column: construct one, then format sequences of values with it.         *)
(***************************************************************************)
\* the column format strings of the model: the one of the docstring and of
\* test_column.py, one of test_table.py, and short ones
ColumnFormats ==
    {<<"|", " ", " ", " ", "{", ":", "-", "<", "7", "}", " ", "#">>,
     <<" ", "{", ":", "^", "}", " ", "|">>,
     <<"{", "}">>,
     <<"|", "{", ":", "1", "}", "|">>,
     <<"{", ":", "3", ".", "1", "}">>,
     <<"{", ":", ".", "2", "}">>,
     <<"{", ":", "0", "}", "|">>}

DefaultHRuleFormat == <<"+", "-", "+">>

\* the text values: the prefixes of a word, of every length up to MaxValLen
Word == <<"a", "b", "c", "d", "e", "f", "g", "h">>
Values == {SubSeq(Word, 1, k) : k \in 0..MaxValLen}
ValueSeqs == UNION {[1..n -> Values] : n \in 0..MaxRows}

\* output = column.format(vals)
FormatColumn ==
    /\ ~call.made
    /\ \E vals \in ValueSeqs :
        \E r \in {ColumnFormat(column, vals)} :
            /\ column' = r.column
            /\ call' = [made |-> TRUE, returned |-> r.ok, values |-> vals,
                        output |-> r.output, before |-> column]
    /\ UNCHANGED <<format_vars, table_vars>>

\* the caller is done with what the call returned (or raised)
DropOutput ==
    /\ call.made
    /\ call' = NoCall
    /\ UNCHANGED <<column, format_vars, table_vars>>

InitColumn ==
    /\ FormatIdle /\ TableIdle
    /\ \E f \in ColumnFormats, h \in HRule :
           /\ ColumnAccepts(f)
           /\ column = ColumnNew(f, h, DefaultHRuleFormat)
    /\ call = NoCall

NextColumn == FormatColumn \/ DropOutput

SpecColumn == InitColumn /\ [][NextColumn]_vars

(***************************************************************************)
(* Table: construct one, set the hrule of its columns, format data.        *)
(***************************************************************************)
\* the tables of the model: column formats and headers
TableShapes ==
    {[formats |-> << <<"|", "{", ":", "^", "3", "}", "|">>,
                     <<" ", "{", ":", "2", "}", " ", "|">> >>,
      headers |-> << <<"H">>, <<"H", "d">> >>],
     [formats |-> << <<"{", "}">>, <<"|", "{", ":", "1", "}", "|">> >>,
      headers |-> <<>>]}

\* the cell values of the model's tables
TableValues == {<<"a">>, <<"b", "c">>}

\* sequences of at most n elements of S
SeqsUpTo(S, n) == UNION {[1..k -> S] : k \in 0..n}

\* column-major data: for some of the table's columns, a sequence of values
ColumnData(t) == SeqsUpTo(SeqsUpTo(TableValues, MaxTableRows), Len(t.columns))

\* row-major data: rows of at most as many values as the table has columns
RowData(t) == SeqsUpTo(SeqsUpTo(TableValues, Len(t.columns)), MaxTableRows)

\* text = table.format(columns)
FormatTable ==
    /\ ~tcall.made
    /\ \E columns \in ColumnData(table) :
        \E r \in {TableFormat(table, columns)} :
            /\ table' = r.table
            /\ tcall' = [made |-> TRUE, op |-> "format", returned |-> r.ok,
                         arg |-> columns, text |-> r.text, before |-> table]
    /\ UNCHANGED <<format_vars, column_vars>>

\* text = table.format_rows(rows)
FormatTableRows ==
    /\ ~tcall.made
    /\ \E rows \in RowData(table) :
        \E r \in {TableFormatRows(table, rows)} :
            /\ table' = r.table
            /\ tcall' = [made |-> TRUE, op |-> "format_rows", returned |-> r.ok,
                         arg |-> rows, text |-> r.text, before |-> table]
    /\ UNCHANGED <<format_vars, column_vars>>

\* table.columns[i].hrule = h
SetColumnHRule ==
    /\ ~tcall.made
    /\ \E i \in 1..Len(table.columns), h \in HRule :
        table' = [table EXCEPT !.columns[i].hrule = h]
    /\ UNCHANGED <<tcall, format_vars, column_vars>>

\* the caller is done with what the call returned (or raised)
DropText ==
    /\ tcall.made
    /\ tcall' = NoTableCall
    /\ UNCHANGED <<table, format_vars, column_vars>>

InitTable ==
    /\ FormatIdle /\ ColumnIdle
    /\ \E s \in TableShapes, h \in HRule :
           /\ TableAccepts(s.formats, s.headers)
           /\ table = TableNew(s.formats, s.headers, h, DefaultHRuleFormat)
    /\ tcall = NoTableCall

NextTable == FormatTable \/ FormatTableRows \/ SetColumnHRule \/ DropText

SpecTable == InitTable /\ [][NextTable]_vars

(***************************************************************************)
(* Properties.                                                             *)
(***************************************************************************)
\* the lines of the values of the call the caller holds, as the column, with
\* the width the call left it, renders them
RenderedLine(i) == StrFormat(ColumnStr(column), call.values[i]).text

\* the hrule line of the column
RuleLine == HRuleLine(column).text

\* the length of the text v rendered with no width and no precision
NaturalLen(v) ==
    Len(FormatFormat([column.content_format EXCEPT !.width = <<>>, !.precision = <<>>],
                     v).text)

\* C1: after every Column.format call that returns, on a non-empty sequence
\* of values and a Column with no explicit width, content_format.width is the greatest natural length
\* (rendered with no width and no precision) of that call's values -- on
\* the first call and on every later call on the same Column.
C1_WidthIsLongestOfCall ==
    (call.returned /\ column.width = <<>> /\ call.values # <<>>) =>
        column.content_format.width =
            NatToStr(MaxOf([i \in 1..Len(call.values) |-> NaturalLen(call.values[i])]))

\* C2: content_format.precision equals content_format.width in every state
\* of every Column, right after construction and after any format calls.
C2_PrecisionEqualsWidth ==
    column.content_format.precision = column.content_format.width

\* a sequence of sequences all of one length
Rectangular(m) == \A i, j \in 1..Len(m) : Len(m[i]) = Len(m[j])

\* the transpose of a rectangular, non-empty sequence of sequences
Transpose(m) == [c \in 1..Len(m[1]) |-> [r \in 1..Len(m) |-> m[r][c]]]

\* C3: Table.format_rows raises, and returns no text, whenever two rows of
\* its input differ in length.
C3_RaggedRowsRaise ==
    (tcall.made /\ tcall.op = "format_rows" /\ ~Rectangular(tcall.arg)) => ~tcall.returned

\* the value sequences a Table.format call supplies for the table's columns
SuppliedColumns == 1..Min(Len(tcall.arg), Len(tcall.before.columns))

\* C4: Table.format raises, and returns no text, whenever the value
\* sequences supplied for two columns of the table differ in length, under
\* every assignment of hrule policies to the columns.
C4_UnequalColumnsRaise ==
    (/\ tcall.made /\ tcall.op = "format"
     /\ \E i, j \in SuppliedColumns : Len(tcall.arg[i]) # Len(tcall.arg[j]))
    => ~tcall.returned

\* what the Table call the caller holds did: whether it returned, the text,
\* and the table it left
TableOutcome == [ok |-> tcall.returned, table |-> table, text |-> tcall.text]

\* C5: on a rectangular data set of at least one row, Table.format on the
\* columns and Table.format_rows on the rows (the transpose), from the same
\* state of the Table, return the same text and leave the same Table.
C5_TransposeEquivalent ==
    (tcall.made /\ Rectangular(tcall.arg) /\ Len(tcall.arg) >= 1) =>
        /\ tcall.op = "format_rows" =>
               TableFormat(tcall.before, Transpose(tcall.arg)) = TableOutcome
        /\ (tcall.op = "format" /\ Len(tcall.arg[1]) >= 1) =>
               TableFormatRows(tcall.before, Transpose(tcall.arg)) = TableOutcome

\* C5 happens: format_rows returned on two rows of two values that are not
\* their own transpose
C5_Witness ==
    /\ tcall.made /\ tcall.op = "format_rows" /\ tcall.returned
    /\ Len(tcall.arg) = 2 /\ Len(tcall.arg[1]) = 2 /\ Len(tcall.arg[2]) = 2
    /\ tcall.arg[1][2] # tcall.arg[2][1]

\* C6: under ALL, for a non-empty sequence of values, the output is the
\* hrule line, then for each value in order its line and the hrule line:
\* the hrule line at every even index (from 0), value i's line at index
\* 2i - 1, so the output starts and ends with the hrule line and no two
\* value lines are adjacent.
C6_AllRulesEveryRow ==
    (call.returned /\ column.hrule = ALL /\ call.values # <<>>) =>
        /\ Len(call.output) = 2 * Len(call.values) + 1
        /\ \A k \in 1..Len(call.output) :
               call.output[k] = IF k % 2 = 1 THEN RuleLine ELSE RenderedLine(k \div 2)

\* C6 happens: a call under ALL returned for several values, not all alike
C6_Witness ==
    /\ call.returned /\ column.hrule = ALL /\ Len(call.values) >= 3
    /\ call.values[1] # call.values[2]

\* C7: a call that returns gives len(values) + 2 lines under FRAME,
\* 2 * len(values) + 1 under ALL and len(values) under NONE.
C7_LineCount ==
    call.returned =>
        /\ column.hrule = FRAME => Len(call.output) = Len(call.values) + 2
        /\ column.hrule = ALL => Len(call.output) = 2 * Len(call.values) + 1
        /\ column.hrule = NONE => Len(call.output) = Len(call.values)

\* C7 happens: a call under FRAME returned for several values
C7_Witness ==
    /\ call.returned /\ column.hrule = FRAME /\ Len(call.values) >= 3
    /\ Len(call.output) = Len(call.values) + 2

\* C8: under FRAME_HEADER the output starts and ends with the hrule line;
\* for more than one value it is the hrule line, the first value's line,
\* the hrule line, the other values' lines in order and the hrule line
\* (len(values) + 3 lines); for one value it is hrule, line, hrule; no
\* other line is added.
C8_FrameHeader ==
    (call.returned /\ column.hrule = FRAME_HEADER) =>
        LET n == Len(call.values)
            out == call.output
        IN  /\ Len(out) >= 1 /\ out[1] = RuleLine /\ out[Len(out)] = RuleLine
            /\ n > 1 =>
                   /\ Len(out) = n + 3
                   /\ out[2] = RenderedLine(1)
                   /\ out[3] = RuleLine
                   /\ \A i \in 2..n : out[i + 2] = RenderedLine(i)
            /\ n = 1 => out = <<RuleLine, RenderedLine(1), RuleLine>>
            /\ n = 0 => Len(out) <= 2

\* C8 happens: a call under FRAME_HEADER returned for three values, the
\* second and third lines adjacent and unlike the hrule line
C8_Witness ==
    /\ call.returned /\ column.hrule = FRAME_HEADER /\ Len(call.values) = 3
    /\ call.output[4] # RuleLine /\ call.output[5] # RuleLine

\* C9: the specification str(Format(s)) writes for an accepted s is accepted
\* too, and parses to the same value of every field.
C9_RoundTrip ==
    format_pc = "reparsed" =>
        /\ fmt_again # Invalid
        /\ \A f \in FormatFields : fmt_again[f] = fmt[f]

\* C9 happens: a specification with a fill, an alignment and a precision
\* was parsed, written and parsed again
C9_Witness ==
    /\ format_pc = "reparsed"
    /\ fmt.fill # <<>> /\ fmt.align # <<>> /\ fmt.precision # <<>>

\* C10: all lines one call returns have one length, the hrule line as the
\* value lines: left border + left padding + content width + right padding
\* + right border; with an explicit width (longer values are cut to it) and
\* without, under every policy, after any earlier calls.
C10_LinesOfOneLength ==
    call.returned =>
        \A k \in 1..Len(call.output) :
            Len(call.output[k]) =
                Len(column.left_border) + Len(column.left_padding)
                + StrToNat(column.content_format.width)
                + Len(column.right_padding) + Len(column.right_border)

\* C10 happens: a call on a column with an explicit width returned lines
\* and an hrule line for values of which one is longer than the width
C10_Witness ==
    /\ call.returned /\ column.width # <<>> /\ column.hrule >= FRAME
    /\ \E i \in 1..Len(call.values) : Len(call.values[i]) > StrToNat(column.width)
    /\ Len(call.output) >= 3
====
